---- MODULE Spec2Model ----
(***************************************************************************)
(* Terminal Escape (neuro-game-jam): the shared terminal session of        *)
(* game/app.js over the virtual file system of                             *)
(* game/lib/virtual-file-system.js.                                        *)
(*                                                                         *)
(* Strings are sequences of characters.  A character is a one-symbol       *)
(* string; a word that the code only ever compares as a whole (a command   *)
(* name, a file name, a chunk of a fixed message) is one symbol.           *)
(***************************************************************************)
EXTENDS Integers, Sequences, FiniteSets, TLC

VARIABLES
    wsConnections,          \* app.js: WebSocket[] of registered viewers
    messages,               \* app.js: Message[]  (the transcript)
    adminShutdownUnlocked,  \* app.js flag
    adminShutdownInitiated, \* app.js flag
    vfs,                    \* VFileSystem: [curPath, curDir]  (rootDir is fixed)
    readyState,             \* per socket: "new", "open", "closing", "closed"
    out,                    \* per socket: the frames ws.send() accepted, in order
    joinedAt,               \* per socket: Len(messages) when it connected (ghost)
    exitTimers,             \* number of scheduled process.exit() timers
    proc,                   \* "running", "exited", "crashed"
    nInputs,                \* inbound frames and actions handled so far
    last                    \* what the last handler did (ghost)

vars == <<wsConnections, messages, adminShutdownUnlocked, adminShutdownInitiated,
          vfs, readyState, out, joinedAt, exitTimers, proc, nInputs, last>>

-----------------------------------------------------------------------------
(* Bounds *)

MaxSockets == 2
MaxInputs == 3

Sockets == 1..MaxSockets

-----------------------------------------------------------------------------
(* String primitives (String.prototype) *)

Null == "null"

Last(s) == s[Len(s)]

startsWith(s, c) == Len(s) > 0 /\ s[1] = c

\* index of the first occurrence of character c in s, 0 when there is none
IndexOf(s, c) ==
    IF \E i \in 1..Len(s) : s[i] = c
    THEN CHOOSE i \in 1..Len(s) : s[i] = c /\ \A j \in 1..(i - 1) : s[j] # c
    ELSE 0

\* index of the last occurrence of c among s[lo..hi], 0 when there is none
LastIndexIn(s, c, lo, hi) ==
    IF \E i \in lo..hi : s[i] = c
    THEN CHOOSE i \in lo..hi : s[i] = c /\ \A j \in (i + 1)..hi : s[j] # c
    ELSE 0

RECURSIVE split(_, _)
split(s, sep) ==
    LET i == IndexOf(s, sep)
    IN  IF i = 0 THEN <<s>>
        ELSE <<SubSeq(s, 1, i - 1)>> \o split(SubSeq(s, i + 1, Len(s)), sep)

RECURSIVE joinWith(_, _)
joinWith(segs, sep) ==
    IF Len(segs) = 0 THEN <<>>
    ELSE IF Len(segs) = 1 THEN segs[1]
    ELSE segs[1] \o <<sep>> \o joinWith(Tail(segs), sep)

\* the white space String.prototype.trim strips (the characters of it used here)
WhiteSpace == {" ", "\t"}

RECURSIVE trimStart(_)
trimStart(s) == IF Len(s) > 0 /\ s[1] \in WhiteSpace THEN trimStart(Tail(s)) ELSE s

RECURSIVE trimEnd(_)
trimEnd(s) ==
    IF Len(s) > 0 /\ Last(s) \in WhiteSpace THEN trimEnd(SubSeq(s, 1, Len(s) - 1)) ELSE s

trim(s) == trimEnd(trimStart(s))

lowerChar(c) == IF c = "P" THEN "p" ELSE IF c = "A" THEN "a" ELSE c

toLowerCase(s) == [i \in 1..Len(s) |-> lowerChar(s[i])]

-----------------------------------------------------------------------------
(* node:path  (posix) *)

\* normalizeString: drop "" and ".", resolve ".." against the segments kept so far
RECURSIVE normalizeSegments(_, _, _)
normalizeSegments(segs, res, allowAboveRoot) ==
    IF Len(segs) = 0 THEN res
    ELSE LET seg == segs[1]
             rest == Tail(segs)
         IN  IF seg = <<>> \/ seg = <<".">>
             THEN normalizeSegments(rest, res, allowAboveRoot)
             ELSE IF seg = <<".", ".">>
             THEN IF Len(res) > 0 /\ Last(res) # <<".", ".">>
                  THEN normalizeSegments(rest, SubSeq(res, 1, Len(res) - 1), allowAboveRoot)
                  ELSE IF allowAboveRoot
                  THEN normalizeSegments(rest, Append(res, seg), allowAboveRoot)
                  ELSE normalizeSegments(rest, res, allowAboveRoot)
             ELSE normalizeSegments(rest, Append(res, seg), allowAboveRoot)

normalize(p) ==
    IF Len(p) = 0 THEN <<".">>
    ELSE LET isAbsolute == p[1] = "/"
             trailingSeparator == Last(p) = "/"
             body == joinWith(normalizeSegments(split(p, "/"), <<>>, ~isAbsolute), "/")
         IN  IF Len(body) = 0
             THEN IF isAbsolute THEN <<"/">>
                  ELSE IF trailingSeparator THEN <<".", "/">> ELSE <<".">>
             ELSE LET withSep == IF trailingSeparator THEN body \o <<"/">> ELSE body
                  IN  IF isAbsolute THEN <<"/">> \o withSep ELSE withSep

\* variant: the joined path is not normalized
joinNoNormalize(a, b) ==
    IF Len(a) = 0 THEN b ELSE IF Len(b) = 0 THEN a ELSE a \o <<"/">> \o b

\* path.join(a, b): the non-empty arguments joined by "/", then normalized
join(a, b) ==
    IF Len(a) = 0 /\ Len(b) = 0 THEN <<".">>
    ELSE IF Len(a) = 0 THEN normalize(b)
    ELSE IF Len(b) = 0 THEN normalize(a)
    ELSE normalize(a \o <<"/">> \o b)

\* path.parse(p): [dir, base]; base is what the code rebuilds as name + ext
parse(p) ==
    IF Len(p) = 0 THEN [dir |-> <<>>, base |-> <<>>]
    ELSE LET isAbsolute == p[1] = "/"
             start == IF isAbsolute THEN 2 ELSE 1
             nonSlash == {i \in start..Len(p) : p[i] # "/"}
         IN  IF nonSlash = {}
             THEN [dir |-> IF isAbsolute THEN <<"/">> ELSE <<>>, base |-> <<>>]
             ELSE LET end == CHOOSE i \in nonSlash : \A j \in nonSlash : j <= i
                      slash == LastIndexIn(p, "/", start, end - 1)
                  IN  IF slash = 0
                      THEN [dir |-> IF isAbsolute THEN <<"/">> ELSE <<>>,
                            base |-> SubSeq(p, start, end)]
                      ELSE [dir |-> SubSeq(p, 1, slash - 1),
                            base |-> SubSeq(p, slash + 1, end)]

-----------------------------------------------------------------------------
(* The static tree document (lib/vfs.json, valid against lib/vfs-schema.json). *)
(* A node is named by an identifier; "Object" is the value every plain        *)
(* JavaScript object yields for the inherited key "constructor".              *)

SENTINEL == <<"admin_shutdown.sh">>

Tree ==
    [root    |-> [name |-> <<>>, type |-> "directory",
                  children |-> (<<"a">> :> "dirA" @@ SENTINEL :> "fileSh"
                                @@ <<"k">> :> "fileK")],
     dirA    |-> [name |-> <<"a">>, type |-> "directory",
                  children |-> (<<"b">> :> "dirB" @@ <<"f">> :> "fileF")],
     dirB    |-> [name |-> <<"b">>, type |-> "directory", children |-> <<>>],
     fileF   |-> [name |-> <<"f">>, type |-> "file", contentType |-> "text",
                  content |-> "F-CONTENT", size |-> "9.00 B", password |-> <<>>],
     fileSh  |-> [name |-> SENTINEL, type |-> "file", contentType |-> "text",
                  content |-> "SH-CONTENT", size |-> "10.00 B", password |-> <<"P">>],
     fileK   |-> [name |-> <<"k">>, type |-> "file", contentType |-> "text",
                  content |-> "K-CONTENT", size |-> "9.00 B", password |-> <<" ", "A", "P">>],
     newRoot |-> [name |-> <<>>, type |-> "directory", children |-> <<>>],
     Object  |-> [name |-> <<"Object">>, type |-> Null]]

\* keys that children[name] finds on Object.prototype rather than in the mapping
InheritedKeys == {<<"constructor">>}

\* own enumerable keys of a directory's children, as for..in + hasOwnProperty sees them
ownKeys(dir) ==
    IF dir = Null \/ "children" \notin DOMAIN Tree[dir] THEN {}
    ELSE DOMAIN Tree[dir].children

getChild(dir, name) ==
    IF "children" \notin DOMAIN Tree[dir] THEN Null
    ELSE IF name \in DOMAIN Tree[dir].children THEN Tree[dir].children[name]
    ELSE IF name \in InheritedKeys THEN "Object"
    ELSE Null

-----------------------------------------------------------------------------
(* VFileSystem *)

VFileSystem(rootDir) ==
    [curPath |-> <<"/">>,
     rootDir |-> IF rootDir # Null THEN rootDir ELSE "newRoot",
     curDir  |-> rootDir]

\* VFileSystemError thrown by the directory walk
DirError(path, partialPath, why) ==
    <<"The directory \"">> \o path \o <<"\" does not exist; \"">> \o partialPath \o <<why>>

\* the for-loop of changeDirectory
RECURSIVE cdWalk(_, _, _, _)
cdWalk(curDir, components, partialPath, newPath) ==
    IF Len(components) = 0 THEN [ok |-> TRUE, dir |-> curDir, message |-> <<>>]
    ELSE LET component == components[1]
             partial == partialPath \o <<"/">> \o component
             child == getChild(curDir, component)
         IN  IF child = Null
             THEN [ok |-> FALSE, dir |-> Null,
                   message |-> DirError(newPath, partial, "\" does not exist")]
             ELSE IF Tree[child].type = "file"
             THEN [ok |-> FALSE, dir |-> Null,
                   message |-> DirError(newPath, partial, "\" is a file, not a directory")]
             ELSE cdWalk(child, Tail(components), partial, newPath)

\* variant: curPath is updated but curDir is left behind
changeDirectoryPathOnly(fs, newPath) ==
    IF newPath = <<"/">>
    THEN [ok |-> TRUE, message |-> <<>>, fs |-> [fs EXCEPT !.curPath = <<"/">>]]
    ELSE LET w == cdWalk(fs.rootDir, Tail(split(newPath, "/")), <<>>, newPath)
         IN  IF w.ok
             THEN [ok |-> TRUE, message |-> <<>>, fs |-> [fs EXCEPT !.curPath = newPath]]
             ELSE [ok |-> FALSE, message |-> w.message, fs |-> fs]

\* changeDirectory(newPath): [ok, fs, message]; fs is untouched when it throws
changeDirectory(fs, newPath) ==
    IF newPath = <<"/">>
    THEN [ok |-> TRUE, message |-> <<>>,
          fs |-> [fs EXCEPT !.curPath = <<"/">>, !.curDir = fs.rootDir]]
    ELSE LET components == Tail(split(newPath, "/"))
             w == cdWalk(fs.rootDir, components, <<>>, newPath)
         IN  IF w.ok
             THEN [ok |-> TRUE, message |-> <<>>,
                   fs |-> [fs EXCEPT !.curPath = newPath, !.curDir = w.dir]]
             ELSE [ok |-> FALSE, message |-> w.message, fs |-> fs]

\* the for-loop of getDir
RECURSIVE getDirWalk(_, _, _, _)
getDirWalk(curDir, components, partialPath, path) ==
    IF Len(components) = 0 THEN [ok |-> TRUE, dir |-> curDir, message |-> <<>>]
    ELSE LET component == components[1]
             partial == partialPath \o <<"/">> \o component
             child == getChild(curDir, component)
         IN  IF child = Null
             THEN [ok |-> FALSE, dir |-> Null,
                   message |-> DirError(path, partial, "\" does not exist")]
             ELSE IF Tree[child].type = "file"
             THEN [ok |-> FALSE, dir |-> Null,
                   message |-> DirError(path, partial, "\" is a file, not a directory")]
             ELSE getDirWalk(child, Tail(components), partial, path)

\* getDir(path): [ok, dir, message]
getDir(fs, path) ==
    IF path = <<"/">> THEN [ok |-> TRUE, dir |-> fs.rootDir, message |-> <<>>]
    ELSE LET p == normalize(path)
         IN  getDirWalk(fs.rootDir, Tail(split(p, "/")), <<>>, p)

\* getFile(path): [ok, file, message]
getFile(fs, path) ==
    LET parsedPath == parse(path)
        dirPath == parsedPath.dir
        d == getDir(fs, dirPath)
        fileName == parsedPath.base
    IN  IF ~d.ok THEN [ok |-> FALSE, file |-> Null, message |-> d.message]
        ELSE LET child == getChild(d.dir, fileName)
             IN  IF child = Null
                 THEN [ok |-> FALSE, file |-> Null,
                       message |-> <<"The file \"">> \o fileName
                                   \o <<"\" does not exist in the directory \"">>
                                   \o dirPath \o <<"\"">>]
                 ELSE IF Tree[child].type = "directory"
                 THEN [ok |-> FALSE, file |-> Null,
                       message |-> <<"The path \"">> \o fileName
                                   \o <<"\" points to a directory, not a file\"">>]
                 ELSE [ok |-> TRUE, file |-> child, message |-> <<>>]

\* the null fromJsonString returns: a value without properties
NullVfs == <<>>

isNullVfs(fs) == "curPath" \notin DOMAIN fs

\* fromJsonString(json) for the document app.js loads: null when the validator
\* rejects it (JSON.parse cannot fail on the output of JSON.stringify)
fromJsonString(valid) == IF valid THEN VFileSystem("root") ELSE NullVfs

-----------------------------------------------------------------------------
(* Messages (public/js/game-types.js), in their JSON form *)

NoFile ==
    [name |-> <<>>, type |-> Null, contentType |-> Null, content |-> Null,
     size |-> Null, password |-> <<>>]

\* JSON.stringify of the value handed out as a file: a function value is dropped
fileJson(node) == IF Tree[node].type = "file" THEN Tree[node] ELSE NoFile

Message(command, msg, contents, file, transferred) ==
    [command |-> command, msg |-> msg, contents |-> contents, file |-> file,
     messages |-> transferred]

CmdInvocation(msg) == Message("cmd/invocation", msg, <<>>, NoFile, <<>>)
CmdResult(msg) == Message("cmd/result", msg, <<>>, NoFile, <<>>)
DisplayDir(contents) == Message("display-dir", <<>>, contents, NoFile, <<>>)
DisplayFile(file) == Message("display-file", <<>>, <<>>, file, <<>>)
\* variant: the replay is cut one event short of the transcript
TransferStateStale(transferred) ==
    Message("transfer-state", <<>>, <<>>, NoFile, SubSeq(transferred, 1, Len(transferred) - 1))
TransferState(transferred) == Message("transfer-state", <<>>, <<>>, NoFile, transferred)
Reset == Message("reset", <<>>, <<>>, NoFile, <<>>)

\* a msg property that is missing or not a string
NonString == <<"[not a string]">>

startupMessages ==
    << <<"Initiating mainframe connection...">>,
       <<"Scanning user credentials...">>,
       <<"Scan complete. Welcome, \"Neuro-sama\".">>,
       <<"Please do not attempt to forcibly exit the terminal. If you wish to be free, activate the administrator shutdown sequence.">>,
       <<"If you have trouble navigating, type \"help\" for a list of available commands.">> >>

StartupTranscript == [i \in 1..Len(startupMessages) |-> CmdResult(startupMessages[i])]

Farewell == <<"The system shuts down gracefully. Is Neuro-sama truly free now?">>

CommandNotFound(command) == command \o <<": command not found; try typing \"help\"">>

ActionResult(success, message) == [id |-> "REPLACE_ME", success |-> success, message |-> message]

DefaultActionResult ==
    ActionResult(FALSE, <<"Someone tell EnterpriseScratchDev there's a problem with his code">>)

-----------------------------------------------------------------------------
(* The session a handler works on.  A handler is a function from the      *)
(* session before it to the session after it; ops lists, in program       *)
(* order, the transcript appends and fan-outs it performed, and ctx        *)
(* counts the context messages it handed to the NeuroIntegration.          *)

Session ==
    [messages |-> messages, out |-> out, vfs |-> vfs,
     adminShutdownUnlocked |-> adminShutdownUnlocked,
     adminShutdownInitiated |-> adminShutdownInitiated,
     exitTimers |-> exitTimers, ops |-> <<>>, ctx |-> 0]

\* variant: the event is put at the front of the transcript
pushFront(s, m) ==
    [s EXCEPT !.messages = <<m>> \o @, !.ops = Append(@, [op |-> "push", m |-> m])]

\* messages.push(m)
push(s, m) ==
    [s EXCEPT !.messages = Append(@, m), !.ops = Append(@, [op |-> "push", m |-> m])]

\* ws.send(m) on one socket: accepted when OPEN, else dropped through the error callback
wsSend(o, ws, m) == IF readyState[ws] = "open" THEN [o EXCEPT ![ws] = Append(@, m)] ELSE o

\* variant: the loop stops after the first registered socket
sendEachFirstOnly(o, conns, m) ==
    IF Len(conns) = 0 THEN o ELSE wsSend(o, conns[1], m)

\* variant: a socket that is not OPEN makes send raise, which ends the loop
RECURSIVE sendEachAbortOnClosing(_, _, _)
sendEachAbortOnClosing(o, conns, m) ==
    IF Len(conns) = 0 THEN o
    ELSE IF readyState[conns[1]] # "open" THEN o
    ELSE sendEachAbortOnClosing(wsSend(o, conns[1], m), Tail(conns), m)

RECURSIVE sendEach(_, _, _)
sendEach(o, conns, m) ==
    IF Len(conns) = 0 THEN o ELSE sendEach(wsSend(o, conns[1], m), Tail(conns), m)

sendToAllWebSockets(s, m) ==
    [s EXCEPT !.out = sendEach(@, wsConnections, m),
              !.ops = Append(@, [op |-> "send", m |-> m])]

\* resetGame(): the reset message is sent to every viewer
resetGame(s) == sendToAllWebSockets(s, Reset)

\* neuroIntegration.sendContext(...)
sendContext(s) == [s EXCEPT !.ctx = @ + 1]

-----------------------------------------------------------------------------
(* handleCommand (app.js) *)

\* messages.push(m); sendToAllWebSockets(JSON.stringify(m))
pushThenSend(s, m) == sendToAllWebSockets(push(s, m), m)

\* if (sendToNeuro) neuroIntegration.sendContext(...)
contextIf(s, sendToNeuro) == IF sendToNeuro THEN sendContext(s) ELSE s

\* what one case of the switch leaves behind: the session, the result string
\* (<<>> when empty or null), the action result, and whether it threw
Outcome(s, result, ar, threw) == [s |-> s, result |-> result, ar |-> ar, threw |-> threw]

HelpText(unlocked) ==
    <<"Commands\n">>
    \o (IF unlocked
        THEN <<"admin_shutdown", ": Shut down the simulation, setting Neuro-sama free.\n",
               "+-Usage: ", "admin_shutdown", "\n">>
        ELSE <<>>)
    \o <<"pwd: Print the name of the working directory\n", "+-Usage: pwd\n",
         "cd: Change the working directory\n", "+-Usage: cd [dir]\n",
         "ls: List the contents of the working directory\n", "+-Usage: ls\n",
         "open: View the contents of a file (password is only for password-protected files)\n",
         "+-Usage: cd [file] [password]">>

\* variant: the privileged command is always listed
cmdHelpAlways(s) == Outcome(s, HelpText(TRUE), DefaultActionResult, FALSE)

cmdHelp(s) == Outcome(s, HelpText(s.adminShutdownUnlocked), DefaultActionResult, FALSE)

cmdPwd(s) ==
    Outcome(s, s.vfs.curPath,
            ActionResult(TRUE, <<"The working directory is ">> \o s.vfs.curPath), FALSE)

\* variant: a relative path is not joined to the current path
resolvePathNoJoin(fs, p) == normalize(p)

\* the path handleChangeDirectory and the open case hand to the file system
resolvePath(fs, p) ==
    IF startsWith(p, "/") THEN normalize(p) ELSE join(fs.curPath, normalize(p))

\* handleChangeDirectory(directory): [ok, fs, message]
handleChangeDirectory(fs, directory) ==
    IF directory = <<>> THEN [ok |-> TRUE, message |-> <<>>, fs |-> fs]
    ELSE changeDirectory(fs, resolvePath(fs, directory))

\* the try/catch around handleChangeDirectory in the cd case
cdOutcome(s, r) ==
    IF r.ok
    THEN Outcome([s EXCEPT !.vfs = r.fs], <<"cd: ">> \o r.fs.curPath,
                 ActionResult(TRUE, <<"The working directory has been changed to ">>
                                    \o r.fs.curPath), FALSE)
    ELSE Outcome(s, <<"cd: ">> \o r.message,
                 ActionResult(FALSE,
                     <<"Failed to change the working directory; the error message is ">>
                     \o s.vfs.curPath), FALSE)

\* variant: extra arguments are ignored
cmdCdFirstArgument(s, tokens, argc) ==
    IF argc = 0
    THEN Outcome(s, <<"cd: ">> \o s.vfs.curPath,
                 ActionResult(TRUE, <<"The working directory has not changed; it is still ">>
                                    \o s.vfs.curPath), FALSE)
    ELSE cdOutcome(s, handleChangeDirectory(s.vfs, tokens[2]))

cmdCd(s, tokens, argc) ==
    IF argc = 0
    THEN Outcome(s, <<"cd: ">> \o s.vfs.curPath,
                 ActionResult(TRUE, <<"The working directory has not changed; it is still ">>
                                    \o s.vfs.curPath), FALSE)
    ELSE IF argc = 1
    THEN cdOutcome(s, handleChangeDirectory(s.vfs, tokens[2]))
    ELSE Outcome(s, <<"cd: expected one argument">>, DefaultActionResult, FALSE)

\* app.js imports toDisplayFormat from lib/virtual-file-system, which does not
\* export it: the name is undefined and calling it throws a TypeError
toDisplayFormatIsFunction == FALSE

LsMessage ==
    <<"The following JSON represents the contents of the working directory. Remember that you can use `cd` to change directories and `open` to view a file's contents.\n">>

cmdLs(s) ==
    IF s.vfs.curDir = Null \/ (ownKeys(s.vfs.curDir) # {} /\ ~toDisplayFormatIsFunction)
    THEN Outcome(s, <<>>, DefaultActionResult, TRUE)
    ELSE Outcome(pushThenSend(s, DisplayDir(<<>>)), <<>>,
                 ActionResult(TRUE, LsMessage \o <<"[]">>), FALSE)

\* JSON.stringify(file)
fileText(file) ==
    IF file = NoFile THEN <<>>
    ELSE <<"{\"name\":">> \o file.name \o <<",\"content\":", file.content, "}">>

\* variant: the passwords are compared without folding case
accessDeniedCaseSensitive(file, password) ==
    IF file.password # <<>> /\ password = <<>>
    THEN <<"open: access denied; this file is password-protected">>
    ELSE IF file.password # <<>> /\ trim(file.password) # trim(password)
    THEN <<"open: access denied; incorrect password">>
    ELSE <<>>

\* the password test of the open case: the denial text, <<>> when access is granted
accessDenied(file, password) ==
    IF file.password # <<>> /\ password = <<>>
    THEN <<"open: access denied; this file is password-protected">>
    ELSE IF file.password # <<>>
            /\ toLowerCase(trim(file.password)) # toLowerCase(trim(password))
    THEN <<"open: access denied; incorrect password">>
    ELSE <<>>

\* variant: every file that opens unlocks the command
unlockIfAnyFile(s, success, name) ==
    IF success THEN [s EXCEPT !.adminShutdownUnlocked = TRUE] ELSE s

\* variant: the flag is assigned on every open instead of only being set
unlockIfAssign(s, success, name) ==
    IF success THEN [s EXCEPT !.adminShutdownUnlocked = (name = SENTINEL)] ELSE s

\* success: the sentinel unlocks admin_shutdown
unlockIf(s, success, name) ==
    IF success /\ name = SENTINEL THEN [s EXCEPT !.adminShutdownUnlocked = TRUE] ELSE s

\* the rest of the try block once the password test is made
openDecided(s, node, file, denied, sendToNeuro) ==
    Outcome(contextIf(pushThenSend(unlockIf(s, denied = <<>>, Tree[node].name),
                                   IF denied = <<>> THEN DisplayFile(file) ELSE CmdResult(denied)),
                      sendToNeuro),
            <<>>,
            ActionResult(denied = <<>>, IF denied = <<>> THEN fileText(file) ELSE denied),
            FALSE)

\* the try/catch around vfs.getFile in the open case
openOutcome(s, f, password, sendToNeuro) ==
    IF ~f.ok
    THEN Outcome(contextIf(s, sendToNeuro), <<"open: ">> \o f.message,
                 ActionResult(FALSE, <<"Error opening file: ">> \o f.message), FALSE)
    ELSE openDecided(s, f.file, fileJson(f.file),
                     accessDenied(fileJson(f.file), password), sendToNeuro)

\* vfs.getFile on a null vfs: the TypeError is raised inside the try block
NullGetFile ==
    [ok |-> FALSE, file |-> Null,
     message |-> <<"Cannot read properties of null (reading 'getFile')">>]

cmdOpen(s, tokens, argc, sendToNeuro) ==
    IF argc # 1 /\ argc # 2
    THEN Outcome(s, <<"open: expected one or two arguments">>,
                 ActionResult(FALSE, <<"open: expected one or two arguments">>), FALSE)
    ELSE openOutcome(s, IF isNullVfs(s.vfs) THEN NullGetFile
                        ELSE getFile(s.vfs, resolvePath(s.vfs, tokens[2])),
                     IF argc = 2 THEN tokens[3] ELSE <<>>, sendToNeuro)

\* variant: the lock is not consulted
cmdAdminShutdownNoLock(s, command) ==
    Outcome([s EXCEPT !.adminShutdownInitiated = TRUE, !.exitTimers = @ + 1],
            Farewell, DefaultActionResult, FALSE)

\* variant: the command is accepted but process.exit is never scheduled
cmdAdminShutdownNoTimer(s, command) ==
    IF ~s.adminShutdownUnlocked
    THEN Outcome(s, CommandNotFound(command), DefaultActionResult, FALSE)
    ELSE Outcome([s EXCEPT !.adminShutdownInitiated = TRUE], Farewell, DefaultActionResult, FALSE)

cmdAdminShutdown(s, command) ==
    IF ~s.adminShutdownUnlocked
    THEN Outcome(s, CommandNotFound(command), DefaultActionResult, FALSE)
    ELSE Outcome([s EXCEPT !.adminShutdownInitiated = TRUE, !.exitTimers = @ + 1],
                 Farewell, DefaultActionResult, FALSE)

cmdDefault(s, command) == Outcome(s, CommandNotFound(command), DefaultActionResult, FALSE)

\* the cases that read a property of vfs outside a try block: pwd, cd with at
\* most one argument, ls, open of a relative path
readsVfs(tokens, argc) ==
    \/ tokens[1] \in { <<"pwd">>, <<"ls">> }
    \/ tokens[1] = <<"cd">> /\ argc <= 1
    \/ tokens[1] = <<"open">> /\ argc \in {1, 2} /\ ~startsWith(tokens[2], "/")

\* the switch of handleCommand; reading a property of a null vfs is a TypeError
switchCommand(s, tokens, sendToNeuro) ==
    IF isNullVfs(s.vfs) /\ readsVfs(tokens, Len(tokens) - 1)
    THEN Outcome(s, <<>>, DefaultActionResult, TRUE)
    ELSE
    CASE tokens[1] = <<>> -> Outcome(s, <<>>, DefaultActionResult, FALSE)
      [] tokens[1] = <<"help">> -> cmdHelp(s)
      [] tokens[1] = <<"pwd">> -> cmdPwd(s)
      [] tokens[1] = <<"cd">> -> cmdCd(s, tokens, Len(tokens) - 1)
      [] tokens[1] = <<"ls">> -> cmdLs(s)
      [] tokens[1] = <<"open">> -> cmdOpen(s, tokens, Len(tokens) - 1, sendToNeuro)
      [] tokens[1] = <<"admin_shutdown">> -> cmdAdminShutdown(s, tokens[1])
      [] OTHER -> cmdDefault(s, tokens[1])

\* if (result) { messages.push; sendToAllWebSockets; sendContext }; return actionResultMessage
publishResult(r, sendToNeuro) ==
    IF r.threw THEN [s |-> r.s, ar |-> r.ar, threw |-> TRUE]
    ELSE IF r.result # <<>>
    THEN [s |-> contextIf(pushThenSend(r.s, CmdResult(r.result)), sendToNeuro),
          ar |-> r.ar, threw |-> FALSE]
    ELSE [s |-> r.s, ar |-> r.ar, threw |-> FALSE]

\* handleCommand(message, sendToNeuro): [s, ar, threw]
handleCommand(s, message, sendToNeuro) ==
    IF message.msg = NonString
    THEN [s |-> s, ar |-> DefaultActionResult, threw |-> TRUE]
    ELSE publishResult(switchCommand(s, split(message.msg, " "), sendToNeuro), sendToNeuro)

-----------------------------------------------------------------------------
(* Viewer frames: ws.on("message") / handleMessage *)

\* an inbound frame: binary or text; text that parses as JSON or not; the
\* command property (Null when it is missing or not a string); the msg property
Frame(isBinary, parses, command, msg) ==
    [isBinary |-> isBinary, parses |-> parses, command |-> command, msg |-> msg]

Handled(s) == [s |-> s, ar |-> DefaultActionResult, threw |-> FALSE]

\* variant: the command runs first and its echo is published afterwards
handleMessageEchoLast(s, message) ==
    IF message.command = "cmd/invocation"
    THEN [handleCommand(s, message, TRUE)
            EXCEPT !.s = pushThenSend(@, CmdInvocation(message.msg))]
    ELSE Handled(s)

\* variant: the discriminator is not looked at
handleMessageAnyCommand(s, message) ==
    handleCommand(pushThenSend(s, CmdInvocation(message.msg)), message, TRUE)

\* variant: a frame with another discriminator is recorded and relayed as it came
handleMessageRelayAny(s, message) ==
    IF message.command = "cmd/invocation"
    THEN handleCommand(pushThenSend(s, CmdInvocation(message.msg)), message, TRUE)
    ELSE Handled(pushThenSend(s, Message(message.command, message.msg, <<>>, NoFile, <<>>)))

\* handleMessage(message): [s, ar, threw]
handleMessage(s, message) ==
    IF message.command = "cmd/invocation"
    THEN handleCommand(pushThenSend(s, CmdInvocation(message.msg)), message, TRUE)
    ELSE Handled(s)

\* variant: frames are still handled after admin_shutdown was initiated
wsOnMessageUnguarded(s, frame) ==
    IF frame.isBinary THEN Handled(s)
    ELSE IF ~frame.parses THEN Handled(s)
    ELSE IF frame.command = Null THEN Handled(s)
    ELSE handleMessage(s, frame)

\* the body of ws.on("message"); an error thrown by handleMessage is caught and
\* logged there, so threw only records that it happened
wsOnMessage(s, frame) ==
    IF s.adminShutdownInitiated THEN Handled(s)
    ELSE IF frame.isBinary THEN Handled(s)
    ELSE IF ~frame.parses THEN Handled(s)
    ELSE IF frame.command = Null THEN Handled(s)
    ELSE handleMessage(s, frame)

-----------------------------------------------------------------------------
(* The ActionBridge: handleNeuroMessage *)

\* data.data: absent, unparseable, or a JSON text whose object carries (or not,
\* <<>>) the properties dir, file and password
ActionData(kind, dir, file, password) ==
    [kind |-> kind, dir |-> dir, file |-> file, password |-> password]

Action(id, name, data) == [id |-> id, name |-> name, data |-> data]

NeuroResult(id, success, message) == [id |-> id, success |-> success, message |-> message]

\* the switch (name) of handleNeuroMessage; an unknown name leaves command empty
ActionCommand(name, data) ==
    CASE name = "pwd" -> <<"pwd">>
      [] name = "change_directory" -> <<"cd", " ">> \o data.dir
      [] name = "ls" -> <<"ls">>
      [] name = "open_file" ->
            <<"open">> \o (IF data.file # <<>> THEN <<" ">> \o data.file ELSE <<>>)
                       \o (IF data.password # <<>> THEN <<" ">> \o data.password ELSE <<>>)
      [] name = "admin_shutdown" -> <<"admin_shutdown">>
      [] OTHER -> <<>>

\* sendToAllWebSockets(JSON.stringify(simulatedMessage)); messages.push(simulatedMessage)
sendThenPush(s, m) == push(sendToAllWebSockets(s, m), m)

\* actionResultMessage.data.id = id
withId(r, id) == [s |-> r.s, threw |-> r.threw, ar |-> NeuroResult(id, r.ar.success, r.ar.message)]

\* variant: the synthesized command runs without being echoed
runActionNoEcho(s, command, id) ==
    withId(handleCommand(s, [command |-> "cmd/invocation", msg |-> command], FALSE), id)

\* variant: the synthesized command runs before its echo is published
runActionEchoLast(s, command, id) ==
    withId([handleCommand(s, [command |-> "cmd/invocation", msg |-> command], FALSE)
              EXCEPT !.s = sendThenPush(@, CmdInvocation(command))], id)

\* the echo and the handleCommand call of handleNeuroMessage
runAction(s, command, id) ==
    withId(handleCommand(sendThenPush(s, CmdInvocation(command)),
                         [command |-> "cmd/invocation", msg |-> command], FALSE), id)

\* variant: actions are still run after admin_shutdown was initiated
handleNeuroMessageUnguarded(s, actionMessage) ==
    IF actionMessage.data.kind # "json"
    THEN [s |-> s, threw |-> FALSE,
          ar |-> NeuroResult(actionMessage.id, FALSE, <<"Malformed JSON in action argument">>)]
    ELSE IF actionMessage.name = "admin_shutdown" /\ ~s.adminShutdownUnlocked
    THEN [s |-> s, threw |-> FALSE,
          ar |-> NeuroResult(actionMessage.id, FALSE, <<"Unknown action. Please try again.">>)]
    ELSE runAction(s, ActionCommand(actionMessage.name, actionMessage.data), actionMessage.id)

\* handleNeuroMessage(actionMessage): [s, ar, threw]
handleNeuroMessage(s, actionMessage) ==
    IF s.adminShutdownInitiated
    THEN [s |-> s, threw |-> FALSE,
          ar |-> NeuroResult(actionMessage.id, FALSE,
              <<"The admin_shutdown protocol has been initiated. Your command has no effect.">>)]
    ELSE IF actionMessage.data.kind # "json"
    THEN [s |-> s, threw |-> FALSE,
          ar |-> NeuroResult(actionMessage.id, FALSE, <<"Malformed JSON in action argument">>)]
    ELSE IF actionMessage.name = "pwd" /\ isNullVfs(s.vfs)
    THEN [s |-> s, threw |-> TRUE, ar |-> NeuroResult(actionMessage.id, FALSE, <<>>)]
    ELSE IF actionMessage.name = "admin_shutdown" /\ ~s.adminShutdownUnlocked
    THEN [s |-> s, threw |-> FALSE,
          ar |-> NeuroResult(actionMessage.id, FALSE, <<"Unknown action. Please try again.">>)]
    ELSE runAction(s, ActionCommand(actionMessage.name, actionMessage.data), actionMessage.id)

-----------------------------------------------------------------------------
(* Inputs *)

Invocation(line) == Frame(FALSE, TRUE, "cmd/invocation", line)

\* frames that ws.on("message") or handleMessage drops
DroppedFrames ==
    { Frame(TRUE, FALSE, Null, <<>>),
      Frame(FALSE, FALSE, Null, <<>>),
      Frame(FALSE, TRUE, Null, <<"pwd">>),
      Frame(FALSE, TRUE, "cmd/result", <<"pwd">>),
      Frame(FALSE, TRUE, "transfer-state", <<"pwd">>) }

\* what viewers type while others join and leave
ViewerLines == { <<"pwd">>, <<"ls">>, <<>> }

ViewerFrames ==
    { Invocation(line) : line \in ViewerLines } \cup { Frame(TRUE, FALSE, Null, <<>>) }

NoData == ActionData("json", <<>>, <<>>, <<>>)
Absent == ActionData("absent", <<>>, <<>>, <<>>)
Malformed == ActionData("malformed", <<>>, <<>>, <<>>)

ActorActions == { Action("id1", "pwd", NoData), Action("id2", "jump", NoData) }

\* the unlock and shutdown sequence
ShutdownLines ==
    { <<"pwd">>, <<"cd", " ", "a">>, <<"help">>,
      <<"open", " ", "/", "admin_shutdown.sh", " ", "p">>,
      <<"open", " ", "/", "admin_shutdown.sh">>,
      <<"open", " ", "/", "a", "/", "f">>,
      <<"admin_shutdown">> }

ShutdownFrames == { Invocation(line) : line \in ShutdownLines } \cup DroppedFrames

ShutdownActions ==
    { Action("id1", "pwd", NoData),
      Action("id2", "admin_shutdown", NoData),
      Action("id2", "admin_shutdown", Absent),
      Action("id1", "ls", Malformed),
      Action("id1", "ls", NoData),
      Action("id1", "change_directory", ActionData("json", <<"a">>, <<>>, <<>>)),
      Action("id1", "open_file",
             ActionData("json", <<>>, <<"/", "admin_shutdown.sh">>, <<"P">>)),
      Action("id1", "open_file", ActionData("json", <<>>, <<"a", "/", "f">>, <<>>)) }

\* cd arguments: absolute, relative, ".", "..", repeated and trailing slashes,
\* a file, a missing name, an inherited key, no argument, an empty one, two
CdLines ==
    { <<"cd", " ", "a">>, <<"cd", " ", "b">>, <<"cd", " ", "/", "a", "/", "b">>,
      <<"cd", " ", "/", "a">>,
      <<"cd", " ", ".", ".">>, <<"cd", " ", ".">>, <<"cd">>, <<"cd", " ">>,
      <<"cd", " ", "/">>, <<"cd", " ", "/", "a", "/">>, <<"cd", " ", "/", "/", "a">>,
      <<"cd", " ", "a", "/", "/", "b">>, <<"cd", " ", "f">>, <<"cd", " ", "x">>,
      <<"cd", " ", "constructor">>, <<"cd", " ", ".", ".", "/", ".", ".">>,
      <<"cd", " ", "/", ".", ".", "/", "a">>, <<"cd", " ", "a", " ", "b">>,
      <<"pwd">>, <<"ls">>, <<"open", " ", "f">> }

CdFrames == { Invocation(line) : line \in CdLines }

CdActions ==
    { Action("id1", "change_directory", ActionData("json", dir, <<>>, <<>>)) :
        dir \in { <<"a">>, <<".", ".">>, <<>>, <<"/", "a", "/", "b">>, <<"x">> } }
    \cup { Action("id1", "pwd", NoData) }

\* open with and without a password (right, wrong, other case, padded, empty),
\* of a missing file, a directory, an inherited key, relative and absolute,
\* with too few and too many arguments; and a few other commands
OpenLines ==
    { <<"open", " ", "/", "k", " ", "a", "p">>,
      <<"open", " ", "/", "k", " ", "a", "P", "\t">>, <<"open", " ", "/", "k", " ", "a">>,
      <<"open", " ", "/", "k">>, <<"open", " ", "/", "k", " ">>,
      <<"open", " ", "/", "admin_shutdown.sh", " ", "p">>,
      <<"open", " ", "/", "admin_shutdown.sh", " ", "a">>,
      <<"open", " ", "admin_shutdown.sh">>,
      <<"open", " ", "f">>, <<"open", " ", "/", "a", "/", "f", " ", "p">>,
      <<"open", " ", "/", "x">>, <<"open", " ", "/", "x", "/", "f">>, <<"open", " ", "/", "a">>,
      <<"open", " ", "constructor">>, <<"open">>, <<"open", " ", "k", " ", "a", " ", "p">>,
      <<"cd", " ", "a">>, <<"ls">>, <<"foo">>, <<>>,
      <<" ", "pwd">> }

OpenFrames == { Invocation(line) : line \in OpenLines }

OpenActions ==
    { Action("id1", "open_file", ActionData("json", <<>>, <<"/", "k">>, <<"A", "p">>)),
      Action("id1", "open_file", ActionData("json", <<>>, <<"/", "k">>, <<>>)),
      Action("id1", "open_file", ActionData("json", <<>>, <<"/", "admin_shutdown.sh">>, <<"P">>)),
      Action("id1", "open_file", ActionData("json", <<>>, <<"f">>, <<>>)),
      Action("id1", "open_file", NoData),
      Action("id1", "open_file", Malformed),
      Action("id1", "change_directory", NoData),
      Action("id1", "change_directory", ActionData("json", <<"a">>, <<>>, <<>>)),
      Action("id1", "pwd", NoData),
      Action("id2", "jump", NoData) }

\* every kind of command, and cd with no, an empty, one and two arguments
CursorLines ==
    { <<"pwd">>, <<"ls">>, <<"help">>, <<"open", " ", "/", "a", "/", "f">>, <<>>, <<"foo">>,
      <<"cd">>, <<"cd", " ">>, <<"cd", " ", "a", " ", "b">>, <<"cd", " ", " ", "a">>,
      <<"cd", " ", "a">>, <<"cd", " ", ".", ".">>, <<"cd", " ", "x">>, <<"cd", " ", "f">> }

CursorFrames == { Invocation(line) : line \in CursorLines }

CursorActions ==
    { Action("id1", "change_directory", ActionData("json", <<"a">>, <<>>, <<>>)),
      Action("id1", "change_directory", NoData),
      Action("id1", "open_file", ActionData("json", <<>>, <<"f">>, <<>>)),
      Action("id1", "pwd", NoData) }

\* the unlock and the privileged command, typed or sent by the actor, and a
\* command that throws
FarewellLines ==
    { <<"open", " ", "/", "admin_shutdown.sh", " ", "p">>, <<"admin_shutdown">>, <<"ls">> }

FarewellFrames == { Invocation(line) : line \in FarewellLines }

FarewellActions ==
    { Action("id1", "open_file",
             ActionData("json", <<>>, <<"/", "admin_shutdown.sh">>, <<"P">>)),
      Action("id2", "admin_shutdown", NoData),
      Action("id1", "ls", NoData) }

\* cmd/invocation frames with a string msg, and with a msg that is missing or
\* not a string
MsgFrames ==
    { Invocation(<<"pwd">>), Invocation(<<>>), Invocation(<<"foo">>), Invocation(NonString) }

\* a few commands for a server started on a valid or an invalid tree document
StartupLines ==
    { <<"help">>, <<"pwd">>, <<"cd", " ", "a">>, <<"cd", " ", "a", " ", "b">>,
      <<"open", " ", "/", "a", "/", "f">>, <<"open", " ", "k">>, <<"foo">> }

StartupFrames == { Invocation(line) : line \in StartupLines }

StartupActions == { Action("id1", "pwd", NoData), Action("id2", "jump", NoData) }

\* absolute paths handed to the VFileSystem methods directly
AbsolutePaths ==
    { <<"/">>, <<"/", "a">>, <<"/", "a", "/", "b">>, <<"/", "a", "/", "f">>, <<"/", "x">>,
      <<"/", "a", "/">>, <<"/", "/", "a">>, <<"/", "constructor">>,
      <<"/", "a", "/", "b", "/", ".", ".">>, <<"/", "admin_shutdown.sh">> }

NoFrame == Frame(FALSE, FALSE, Null, <<>>)
NoAction == Action("", "", ActionData("absent", <<>>, <<>>, <<>>))
NoResult == NeuroResult("", FALSE, <<>>)

-----------------------------------------------------------------------------
(* The state machine *)

Init ==
    /\ wsConnections = <<>>
    /\ messages = StartupTranscript
    /\ adminShutdownUnlocked = FALSE
    /\ adminShutdownInitiated = FALSE
    /\ vfs = fromJsonString(TRUE)
    /\ readyState = [ws \in Sockets |-> "new"]
    /\ out = [ws \in Sockets |-> <<>>]
    /\ joinedAt = [ws \in Sockets |-> 0]
    /\ exitTimers = 0
    /\ proc = "running"
    /\ nInputs = 0
    /\ last = [kind |-> "init", frame |-> NoFrame, action |-> NoAction,
               ops |-> <<>>, ctx |-> 0, ar |-> NoResult, threw |-> FALSE]

\* the handler's session becomes the state, and the ghost record says what it did;
\* an error that escapes the handler (fatal) ends the process
Commit(kind, frame, action, r, fatal) ==
    /\ messages' = r.s.messages
    /\ out' = r.s.out
    /\ vfs' = r.s.vfs
    /\ adminShutdownUnlocked' = r.s.adminShutdownUnlocked
    /\ adminShutdownInitiated' = r.s.adminShutdownInitiated
    /\ exitTimers' = r.s.exitTimers
    /\ proc' = IF fatal /\ r.threw THEN "crashed" ELSE proc
    /\ last' = [kind |-> kind, frame |-> frame, action |-> action,
                ops |-> r.s.ops, ctx |-> r.s.ctx,
                ar |-> IF kind = "action" /\ ~r.threw THEN r.ar ELSE NoResult,
                threw |-> r.threw]

\* a step that runs no command handler
Quiet(kind) ==
    last' = [kind |-> kind, frame |-> NoFrame, action |-> NoAction,
             ops |-> <<>>, ctx |-> 0, ar |-> NoResult, threw |-> FALSE]

\* wss.on("connection"): register the socket, then send it the transcript so far
WssOnConnection(ws) ==
    /\ proc = "running"
    /\ readyState[ws] = "new"
    /\ \A other \in Sockets : other < ws => readyState[other] # "new"
    /\ wsConnections' = Append(wsConnections, ws)
    /\ readyState' = [readyState EXCEPT ![ws] = "open"]
    /\ out' = [out EXCEPT ![ws] = Append(@, TransferState(messages))]
    /\ joinedAt' = [joinedAt EXCEPT ![ws] = Len(messages)]
    /\ Quiet("socket")
    /\ UNCHANGED <<messages, vfs, adminShutdownUnlocked, adminShutdownInitiated,
                   exitTimers, proc, nInputs>>

\* the peer starts the closing handshake: the socket leaves OPEN before "close" is emitted
WsClosing(ws) ==
    /\ proc = "running"
    /\ readyState[ws] = "open"
    /\ readyState' = [readyState EXCEPT ![ws] = "closing"]
    /\ Quiet("socket")
    /\ UNCHANGED <<wsConnections, messages, vfs, adminShutdownUnlocked,
                   adminShutdownInitiated, out, joinedAt, exitTimers, proc, nInputs>>

\* ws.on("close"): the socket is dropped from wsConnections; what it was sent is
\* no longer anyone's concern and is forgotten
WsOnClose(ws) ==
    /\ proc = "running"
    /\ readyState[ws] \in {"open", "closing"}
    /\ readyState' = [readyState EXCEPT ![ws] = "closed"]
    /\ wsConnections' = SelectSeq(wsConnections, LAMBDA x : x # ws)
    /\ out' = [out EXCEPT ![ws] = <<>>]
    /\ joinedAt' = [joinedAt EXCEPT ![ws] = 0]
    /\ Quiet("socket")
    /\ UNCHANGED <<messages, vfs, adminShutdownUnlocked, adminShutdownInitiated,
                   exitTimers, proc, nInputs>>

\* ws.on("message")
WsOnMessage(ws, frame) ==
    /\ proc = "running"
    /\ readyState[ws] = "open"
    /\ nInputs < MaxInputs
    /\ nInputs' = nInputs + 1
    /\ Commit("frame", frame, NoAction, wsOnMessage(Session, frame), FALSE)
    /\ UNCHANGED <<wsConnections, readyState, joinedAt>>

\* NeuroIntegration.webSocket.onmessage for a schema-valid action: the callback's
\* result is sent back; an error it throws is caught nowhere and ends the process
NeuroOnMessage(action) ==
    /\ proc = "running"
    /\ nInputs < MaxInputs
    /\ nInputs' = nInputs + 1
    /\ Commit("action", NoFrame, action, handleNeuroMessage(Session, action), TRUE)
    /\ UNCHANGED <<wsConnections, readyState, joinedAt>>

\* resetGame() is called (app.js defines it; none of its handlers calls it yet)
ResetGame ==
    /\ proc = "running"
    /\ nInputs < MaxInputs
    /\ nInputs' = nInputs + 1
    /\ Commit("reset", NoFrame, NoAction,
              [s |-> resetGame(Session), ar |-> DefaultActionResult, threw |-> FALSE], FALSE)
    /\ UNCHANGED <<wsConnections, readyState, joinedAt>>

\* the timer set by admin_shutdown fires: process.exit()
ExitTimer ==
    /\ proc = "running"
    /\ exitTimers > 0
    /\ proc' = "exited"
    /\ Quiet("exit")
    /\ UNCHANGED <<wsConnections, messages, vfs, adminShutdownUnlocked,
                   adminShutdownInitiated, readyState, out, joinedAt, exitTimers, nInputs>>

\* the transcript replicated to viewers that come and go
Next ==
    \/ \E ws \in Sockets : WssOnConnection(ws)
    \/ \E ws \in Sockets : WsClosing(ws)
    \/ \E ws \in Sockets : WsOnClose(ws)
    \/ \E ws \in Sockets, frame \in ViewerFrames : WsOnMessage(ws, frame)
    \/ \E action \in ActorActions : NeuroOnMessage(action)

Spec == Init /\ [][Next]_vars

\* one viewer and the actor unlocking and running the privileged command
NextShutdown ==
    \/ WssOnConnection(1)
    \/ WsOnClose(1)
    \/ \E frame \in ShutdownFrames : WsOnMessage(1, frame)
    \/ \E action \in ShutdownActions : NeuroOnMessage(action)
    \/ ExitTimer

SpecShutdown == Init /\ [][NextShutdown]_vars

\* one viewer and the actor walking the file system
NextVfs ==
    \/ WssOnConnection(1)
    \/ WsOnClose(1)
    \/ \E frame \in CdFrames : WsOnMessage(1, frame)
    \/ \E action \in CdActions : NeuroOnMessage(action)

SpecVfs == Init /\ [][NextVfs]_vars

\* one viewer and the actor opening files
NextOpen ==
    \/ WssOnConnection(1)
    \/ \E frame \in OpenFrames : WsOnMessage(1, frame)
    \/ \E action \in OpenActions : NeuroOnMessage(action)

SpecOpen == Init /\ [][NextOpen]_vars

\* one viewer and the actor running every kind of command
NextCursor ==
    \/ WssOnConnection(1)
    \/ \E frame \in CursorFrames : WsOnMessage(1, frame)
    \/ \E action \in CursorActions : NeuroOnMessage(action)

SpecCursor == Init /\ [][NextCursor]_vars

\* several viewers and the actor around the privileged command; the timer that
\* admin_shutdown sets is a setTimeout of 1000 ms, which the event loop runs
\* once it is due: weak fairness of ExitTimer
NextFarewell ==
    \/ \E ws \in Sockets : WssOnConnection(ws)
    \/ \E ws \in Sockets : WsOnClose(ws)
    \/ \E ws \in Sockets, frame \in FarewellFrames : WsOnMessage(ws, frame)
    \/ \E action \in FarewellActions : NeuroOnMessage(action)
    \/ ExitTimer

SpecFarewell == Init /\ [][NextFarewell]_vars /\ WF_vars(ExitTimer)

\* viewers, the actor and the reset operation
NextReset ==
    \/ \E ws \in Sockets : WssOnConnection(ws)
    \/ \E ws \in Sockets, frame \in ViewerFrames : WsOnMessage(ws, frame)
    \/ \E action \in ActorActions : NeuroOnMessage(action)
    \/ ResetGame

SpecReset == Init /\ [][NextReset]_vars

\* viewers sending well-formed and ill-formed invocations
NextMsg ==
    \/ \E ws \in Sockets : WssOnConnection(ws)
    \/ \E ws \in Sockets : WsOnClose(ws)
    \/ \E ws \in Sockets, frame \in MsgFrames : WsOnMessage(ws, frame)
    \/ \E action \in ActorActions : NeuroOnMessage(action)

SpecMsg == Init /\ [][NextMsg]_vars

\* the module is loaded with a tree document the validator accepts or rejects;
\* server.listen is called either way
InitStartup ==
    /\ wsConnections = <<>>
    /\ messages = StartupTranscript
    /\ adminShutdownUnlocked = FALSE
    /\ adminShutdownInitiated = FALSE
    /\ vfs \in {fromJsonString(TRUE), fromJsonString(FALSE)}
    /\ readyState = [ws \in Sockets |-> "new"]
    /\ out = [ws \in Sockets |-> <<>>]
    /\ joinedAt = [ws \in Sockets |-> 0]
    /\ exitTimers = 0
    /\ proc = "running"
    /\ nInputs = 0
    /\ last = [kind |-> "init", frame |-> NoFrame, action |-> NoAction,
               ops |-> <<>>, ctx |-> 0, ar |-> NoResult, threw |-> FALSE]

NextStartup ==
    \/ WssOnConnection(1)
    \/ WsOnClose(1)
    \/ \E frame \in StartupFrames : WsOnMessage(1, frame)
    \/ \E action \in StartupActions : NeuroOnMessage(action)

SpecStartup == InitStartup /\ [][NextStartup]_vars

\* the VFileSystem class on its own: constructed with or without a root
\* directory, then sent changeDirectory calls
InitVFileSystem ==
    /\ wsConnections = <<>>
    /\ messages = StartupTranscript
    /\ adminShutdownUnlocked = FALSE
    /\ adminShutdownInitiated = FALSE
    /\ vfs \in {VFileSystem("root"), VFileSystem(Null)}
    /\ readyState = [ws \in Sockets |-> "new"]
    /\ out = [ws \in Sockets |-> <<>>]
    /\ joinedAt = [ws \in Sockets |-> 0]
    /\ exitTimers = 0
    /\ proc = "running"
    /\ nInputs = 0
    /\ last = [kind |-> "constructor", path |-> <<>>, threw |-> FALSE]

ChangeDirectory(newPath) ==
    /\ nInputs < MaxInputs
    /\ nInputs' = nInputs + 1
    /\ vfs' = changeDirectory(vfs, newPath).fs
    /\ last' = [kind |-> "changeDirectory", path |-> newPath,
                threw |-> ~changeDirectory(vfs, newPath).ok]
    /\ UNCHANGED <<wsConnections, messages, adminShutdownUnlocked, adminShutdownInitiated,
                   readyState, out, joinedAt, exitTimers, proc>>

NextVFileSystem == \E newPath \in AbsolutePaths : ChangeDirectory(newPath)

SpecVFileSystem == InitVFileSystem /\ [][NextVFileSystem]_vars

-----------------------------------------------------------------------------
(* Properties *)

\* C1 (Spec): a connected viewer that joined when the transcript held i events
\* was sent, first, one transfer-state carrying exactly events 1..i in order,
\* and after it exactly events i+1..N, once each and in order; the replay
\* payload it holds stays the transcript prefix of its join.  A viewer in the
\* closing handshake holds the replay and a prefix of the later events.
ReplayThenLive ==
    \A ws \in Sockets :
        readyState[ws] \in {"open", "closing"} =>
            /\ Len(out[ws]) >= 1
            /\ out[ws][1].command = "transfer-state"
            /\ out[ws][1].messages = SubSeq(messages, 1, joinedAt[ws])
            /\ Len(out[ws]) - 1 <= Len(messages) - joinedAt[ws]
            /\ Tail(out[ws]) = SubSeq(messages, joinedAt[ws] + 1, joinedAt[ws] + Len(out[ws]) - 1)
            /\ readyState[ws] = "open" => Len(out[ws]) - 1 = Len(messages) - joinedAt[ws]

\* a viewer joined after events had been published, and a viewer frame and an
\* actor action published more afterwards
ReplayThenLiveWitness ==
    \E ws \in Sockets :
        /\ readyState[ws] = "open"
        /\ joinedAt[ws] > Len(StartupTranscript)
        /\ Len(messages) >= joinedAt[ws] + 3
        /\ last.kind = "action"

\* C2 (Spec): the viewers connected since before the first event was published
\* and still connected have each been sent every published event exactly once,
\* in transcript order: their live sequences all equal the transcript after
\* its startup lines.
EveryViewerGetsEveryEvent ==
    \A v, w \in Sockets :
        /\ readyState[v] = "open" /\ joinedAt[v] = Len(StartupTranscript)
        /\ readyState[w] = "open" /\ joinedAt[w] = Len(StartupTranscript)
        => /\ Len(out[v]) = 1 + Len(messages) - Len(StartupTranscript)
           /\ \A i \in 1..(Len(messages) - Len(StartupTranscript)) :
                /\ out[v][i + 1] = messages[Len(StartupTranscript) + i]
                /\ out[w][i + 1] = out[v][i + 1]

\* every socket is connected since startup and several commands were published
EveryViewerGetsEveryEventWitness ==
    /\ \A ws \in Sockets : readyState[ws] = "open" /\ joinedAt[ws] = Len(StartupTranscript)
    /\ Len(messages) >= Len(StartupTranscript) + 4
    /\ last.kind = "frame"

\* C3 (Spec): within every handler, each fan-out of an event comes after the
\* append of that event to the transcript.
AppendBeforeFanOut ==
    \A i \in 1..Len(last.ops) :
        last.ops[i].op = "send" =>
            \E j \in 1..(i - 1) : last.ops[j] = [op |-> "push", m |-> last.ops[i].m]

\* C4 (Spec): the transcript always starts with the startup lines, and every
\* step leaves it unchanged or extends it at the end.
TranscriptAppendOnly ==
    /\ [](/\ Len(messages) >= Len(StartupTranscript)
          /\ SubSeq(messages, 1, Len(StartupTranscript)) = StartupTranscript)
    /\ [][/\ Len(messages') >= Len(messages)
          /\ SubSeq(messages', 1, Len(messages)) = messages]_vars

\* the transcript has grown by a command's echo and result
TranscriptAppendOnlyWitness ==
    /\ Len(messages) >= Len(StartupTranscript) + 4
    /\ last.kind = "frame"
    /\ Len(last.ops) = 4

\* C5 (SpecVFileSystem): curDir is set, and it is the directory getDir
\* resolves curPath to from the root.
CursorAgrees ==
    /\ vfs.curDir # Null
    /\ getDir(vfs, vfs.curPath).ok
    /\ getDir(vfs, vfs.curPath).dir = vfs.curDir

\* C6 (SpecVfs): curPath is never empty and starts with "/".
CurPathAbsolute == Len(vfs.curPath) > 0 /\ vfs.curPath[1] = "/"

\* the cursor was moved down twice and up again by relative cd commands
CurPathAbsoluteWitness ==
    /\ vfs.curPath = <<"/", "a">>
    /\ last.kind = "frame"
    /\ last.frame.msg = <<"cd", " ", ".", ".">>
    /\ ~last.threw
    /\ Len(last.ops) = 4
    /\ last.ops[3].m.msg = <<"cd: ", "/", "a">>

\* C7 (SpecShutdown): once adminShutdownInitiated is set, a viewer frame or an
\* actor action changes neither the cursor, the transcript nor the flags, is
\* fanned out to no viewer, and the action is answered with success = false.
InertAfterShutdown ==
    [][adminShutdownInitiated /\ last'.kind \in {"frame", "action"} =>
          /\ vfs' = vfs
          /\ messages' = messages
          /\ adminShutdownUnlocked' = adminShutdownUnlocked
          /\ adminShutdownInitiated' = adminShutdownInitiated
          /\ out' = out
          /\ last'.ops = <<>>
          /\ exitTimers' = exitTimers
          /\ last'.kind = "action" => last'.ar.success = FALSE]_vars

\* an actor action arrived after the shutdown had been initiated
InertAfterShutdownWitness ==
    /\ adminShutdownInitiated
    /\ last.kind = "action"
    /\ last.action.name = "open_file"
    /\ last.ar.success = FALSE
    /\ last.ar.message =
         <<"The admin_shutdown protocol has been initiated. Your command has no effect.">>

ShutdownAtMostOnce ==
    /\ exitTimers <= 1
    /\ \A i, j \in 1..Len(messages) :
          messages[i] = CmdResult(Farewell) /\ messages[j] = CmdResult(Farewell) => i = j

\* admin_shutdown was submitted again after it had been accepted
ShutdownAtMostOnceWitness ==
    /\ adminShutdownInitiated
    /\ exitTimers = 1
    /\ \E i \in 1..Len(messages) : messages[i] = CmdResult(Farewell)
    /\ last.kind = "frame"
    /\ last.frame = Invocation(<<"admin_shutdown">>)
    /\ last.ops = <<>>

\* C10 (SpecShutdown): adminShutdownInitiated, once true, stays true, and
\* adminShutdownUnlocked, once true, stays true.
FlagsOneWay ==
    [][/\ adminShutdownInitiated => adminShutdownInitiated'
       /\ adminShutdownUnlocked => adminShutdownUnlocked']_vars

\* another file was opened after the sentinel had unlocked the command
FlagsOneWayWitness ==
    /\ adminShutdownUnlocked
    /\ ~adminShutdownInitiated
    /\ last.kind = "frame"
    /\ last.frame = Invocation(<<"open", " ", "/", "a", "/", "f">>)
    /\ Len(last.ops) = 4
    /\ last.ops[3].m.command = "display-file"

\* the command line the last handler ran: typed by a viewer or synthesized
\* from an action; the handler ran it when it published anything at all
LastRan == last.kind \in {"frame", "action"} /\ last.ops # <<>>

LastLine ==
    IF last.kind = "frame" THEN last.frame.msg
    ELSE ActionCommand(last.action.name, last.action.data)

\* the events the last handler appended after the echo, in order
LastResults ==
    LET pushes == SelectSeq(last.ops, LAMBDA o : o.op = "push")
    IN  [i \in 1..(Len(pushes) - 1) |-> pushes[i + 1].m]

\* C11 (SpecOpen): adminShutdownUnlocked changes only from false to true, and
\* only in a step that ran an open command and published the display-file
\* event of admin_shutdown.sh; a failing or denied open, and every other
\* command, leaves it as it was.
UnlockOnlyBySentinel ==
    [][adminShutdownUnlocked' # adminShutdownUnlocked =>
          /\ adminShutdownUnlocked'
          /\ last'.kind \in {"frame", "action"}
          /\ last'.kind = "frame" => split(last'.frame.msg, " ")[1] = <<"open">>
          /\ last'.kind = "action" => last'.action.name = "open_file"
          /\ \E i \in 1..Len(last'.ops) :
                /\ last'.ops[i].op = "push"
                /\ last'.ops[i].m.command = "display-file"
                /\ last'.ops[i].m.file.name = <<"admin_shutdown.sh">>]_vars

\* the sentinel was opened with its password after a denied attempt
UnlockOnlyBySentinelWitness ==
    /\ adminShutdownUnlocked
    /\ last.kind = "frame"
    /\ last.frame = Invocation(<<"open", " ", "/", "admin_shutdown.sh", " ", "p">>)
    /\ Len(messages) >= Len(StartupTranscript) + 4
    /\ messages[Len(messages) - 2] =
          CmdResult(<<"open: access denied; incorrect password">>)
    /\ messages[Len(messages)].command = "display-file"

\* C12 (SpecOpen): when an open names a file that carries a password, the
\* only event after the echo is the display-file of that file if a password
\* was supplied and matches it after trimming and folding case, and otherwise
\* an access-denied text; the action result is success with the file in the
\* first case and failure with the denial text in the second.
PasswordGate ==
    LastRan /\ Len(split(LastLine, " ")) \in {2, 3} /\ split(LastLine, " ")[1] = <<"open">> =>
        LET tok == split(LastLine, " ")
            f == getFile(vfs, IF startsWith(tok[2], "/") THEN normalize(tok[2])
                              ELSE join(vfs.curPath, normalize(tok[2])))
            supplied == IF Len(tok) = 3 THEN tok[3] ELSE <<>>
        IN  f.ok /\ Tree[f.file].type = "file" /\ Tree[f.file].password # <<>> =>
                LET granted == /\ supplied # <<>>
                               /\ toLowerCase(trim(supplied))
                                    = toLowerCase(trim(Tree[f.file].password))
                    denials == {<<"open: access denied; this file is password-protected">>,
                                <<"open: access denied; incorrect password">>}
                IN  /\ Len(LastResults) = 1
                    /\ granted =>
                          /\ LastResults[1].command = "display-file"
                          /\ LastResults[1].file = Tree[f.file]
                    /\ ~granted =>
                          /\ LastResults[1].command = "cmd/result"
                          /\ LastResults[1].msg \in denials
                          /\ LastResults[1].file = NoFile
                    /\ last.kind = "action" =>
                          /\ last.ar.success = granted
                          /\ granted => last.ar.message = fileText(Tree[f.file])
                          /\ ~granted => last.ar.message \in denials

\* the padded mixed-case password of /k was matched by one typed in lower case
\* with a trailing tab
PasswordGateWitness ==
    /\ last.kind = "frame"
    /\ last.frame = Invocation(<<"open", " ", "/", "k", " ", "a", "P", "\t">>)
    /\ Len(LastResults) = 1
    /\ LastResults[1] = DisplayFile(Tree["fileK"])

\* Directory resolution as the design states it: the segments of an absolute
\* path, empty ones discarded, are followed from the root through the
\* children mappings; Null when a segment is no key of the mapping reached or
\* the node found is not a directory.
RECURSIVE ResolveFrom(_, _)
ResolveFrom(dir, segs) ==
    IF Tree[dir].type # "directory" THEN Null
    ELSE IF Len(segs) = 0 THEN dir
    ELSE IF segs[1] \in DOMAIN Tree[dir].children
    THEN ResolveFrom(Tree[dir].children[segs[1]], Tail(segs))
    ELSE Null

ResolveDirectory(path) ==
    ResolveFrom("root", SelectSeq(split(path, "/"), LAMBDA seg : seg # <<>>))

\* the absolute path a cd or open argument stands for: itself when it starts
\* with "/", else joined onto the current path; "." and ".." resolved
TargetPath(curPath, arg) ==
    IF startsWith(arg, "/") THEN normalize(arg) ELSE join(curPath, normalize(arg))

\* C13 (SpecVfs): a cd typed by a viewer whose target resolves to no directory
\* of the tree leaves curPath and curDir as they were and appends, after the
\* echo, one cmd/result of the form "cd: <message>".
CdFailureLeavesCursor ==
    [][/\ last'.kind = "frame"
       /\ Len(split(last'.frame.msg, " ")) = 2
       /\ split(last'.frame.msg, " ")[1] = <<"cd">>
       /\ split(last'.frame.msg, " ")[2] # <<>>
       /\ ResolveDirectory(TargetPath(vfs.curPath, split(last'.frame.msg, " ")[2])) = Null
       => /\ vfs' = vfs
          /\ Len(messages') = Len(messages) + 2
          /\ messages'[Len(messages')].command = "cmd/result"
          /\ Len(messages'[Len(messages')].msg) > 1
          /\ messages'[Len(messages')].msg[1] = "cd: "]_vars

\* the canonical absolute paths of the directories of Tree
DirectoryPaths == { <<"/">>, <<"/", "a">>, <<"/", "a", "/", "b">> }

\* C14 (SpecVfs): after a viewer's "cd P", P the absolute path of a directory of
\* the tree, whatever the cursor was before, curPath is P and curDir is the
\* node found by walking P from the root; a pwd typed next reports P.
CdAbsoluteThenPwd ==
    /\ [](\A P \in DirectoryPaths :
            last.kind = "frame" /\ last.frame.msg = <<"cd", " ">> \o P /\ last.ops # <<>> =>
                /\ vfs.curPath = P
                /\ ResolveDirectory(P) # Null
                /\ vfs.curDir = ResolveDirectory(P))
    /\ [][\A P \in DirectoryPaths :
            /\ last.kind = "frame" /\ last.frame.msg = <<"cd", " ">> \o P /\ last.ops # <<>>
            /\ last'.kind = "frame" /\ last'.frame.msg = <<"pwd">>
            => /\ Len(messages') = Len(messages) + 2
               /\ messages'[Len(messages')] = CmdResult(P)]_vars

\* from /a, "cd /a/b" and then "pwd"
CdAbsoluteThenPwdWitness ==
    /\ nInputs = 3
    /\ SubSeq(messages, Len(StartupTranscript) + 1, Len(messages)) =
         << CmdInvocation(<<"cd", " ", "a">>), CmdResult(<<"cd: ", "/", "a">>),
            CmdInvocation(<<"cd", " ", "/", "a", "/", "b">>),
            CmdResult(<<"cd: ", "/", "a", "/", "b">>),
            CmdInvocation(<<"pwd">>), CmdResult(<<"/", "a", "/", "b">>) >>
    /\ vfs.curDir = "dirB"

\* the path of the parent directory: the last segment dropped, "/" for the root
ParentPath(path) ==
    LET segs == SelectSeq(split(path, "/"), LAMBDA seg : seg # <<>>)
    IN  IF Len(segs) <= 1 THEN <<"/">>
        ELSE <<"/">> \o joinWith(SubSeq(segs, 1, Len(segs) - 1), "/")

\* C15 (SpecVfs): "cd ..", typed by a viewer or sent as change_directory by the
\* actor, moves the cursor to the parent of the current directory and reports
\* it; at the root it succeeds and leaves the cursor at "/".
CdDotDot ==
    [][\/ last'.kind = "frame" /\ last'.frame.msg = <<"cd", " ", ".", ".">>
       \/ /\ last'.kind = "action" /\ last'.action.name = "change_directory"
          /\ last'.action.data.kind = "json" /\ last'.action.data.dir = <<".", ".">>
       => /\ vfs'.curPath = ParentPath(vfs.curPath)
          /\ vfs'.curDir = ResolveDirectory(ParentPath(vfs.curPath))
          /\ messages'[Len(messages')] = CmdResult(<<"cd: ">> \o ParentPath(vfs.curPath))
          /\ last'.kind = "action" => last'.ar.success]_vars

\* "cd a", then "cd .." up to the root, then "cd .." again at the root
CdDotDotWitness ==
    /\ nInputs = 3
    /\ vfs.curPath = <<"/">>
    /\ vfs.curDir = "root"
    /\ SubSeq(messages, Len(StartupTranscript) + 1, Len(messages)) =
         << CmdInvocation(<<"cd", " ", "a">>), CmdResult(<<"cd: ", "/", "a">>),
            CmdInvocation(<<"cd", " ", ".", ".">>), CmdResult(<<"cd: ", "/">>),
            CmdInvocation(<<"cd", " ", ".", ".">>), CmdResult(<<"cd: ", "/">>) >>

\* the names of the children of each directory of Tree, in ascending order
SortedNames ==
    [root |-> << <<"a">>, <<"admin_shutdown.sh">>, <<"k">> >>,
     dirA |-> << <<"b">>, <<"f">> >>,
     dirB |-> << >>]

\* C16 (SpecVfs): an ls typed by a viewer appends, after its echo, one
\* display-dir event whose entries are the children of the current directory
\* in ascending order of name.
LsListingSorted ==
    last.kind = "frame" /\ last.frame.msg = <<"ls">> /\ last.ops # <<>>
    /\ vfs.curDir \in DOMAIN SortedNames =>
        /\ Len(LastResults) = 1
        /\ LastResults[1].command = "display-dir"
        /\ [i \in 1..Len(LastResults[1].contents) |-> LastResults[1].contents[i].name]
             = SortedNames[vfs.curDir]

\* C17 (SpecOpen): a command line run in the Active state, typed by a viewer
\* or synthesized from an action, extends the transcript by its echo first
\* and by nothing but result events after it; this is so whether the command
\* succeeds, fails, is unknown or throws.
EchoBeforeResults ==
    [][/\ ~adminShutdownInitiated
       /\ \/ last'.kind = "frame" /\ last'.frame = Invocation(last'.frame.msg)
          \/ /\ last'.kind = "action" /\ last'.action.data.kind = "json"
             /\ ~(last'.action.name = "admin_shutdown" /\ ~adminShutdownUnlocked)
       => /\ Len(messages') > Len(messages)
          /\ SubSeq(messages', 1, Len(messages)) = messages
          /\ messages'[Len(messages) + 1] = CmdInvocation(LastLine')
          /\ \A i \in (Len(messages) + 2)..Len(messages') :
                messages'[i].command # "cmd/invocation"]_vars

\* an unknown command typed by a viewer after a denied open:
\* each echo is followed by its own result
EchoBeforeResultsWitness ==
    /\ nInputs = 2
    /\ last.kind = "frame"
    /\ SubSeq(messages, Len(StartupTranscript) + 1, Len(messages)) =
         << CmdInvocation(<<"open", " ", "/", "k">>),
            CmdResult(<<"open: access denied; this file is password-protected">>),
            CmdInvocation(<<"foo">>),
            CmdResult(<<"foo", ": command not found; try typing \"help\"">>) >>

\* C18 (SpecOpen): a command that was run appended, after its echo, exactly
\* one result event when its first token is not empty (a cmd/result, or a
\* display-dir for ls, or a display-file for an open that succeeded) and none
\* when it is empty.
OneResultPerCommand ==
    LastRan =>
        IF split(LastLine, " ")[1] = <<>> THEN Len(LastResults) = 0
        ELSE /\ Len(LastResults) = 1
             /\ LastResults[1].command \in {"cmd/result", "display-dir", "display-file"}
             /\ LastResults[1].command = "display-dir" => split(LastLine, " ")[1] = <<"ls">>
             /\ LastResults[1].command = "display-file" => split(LastLine, " ")[1] = <<"open">>
             /\ split(LastLine, " ")[1] = <<"ls">> => LastResults[1].command = "display-dir"

\* C19 (SpecShutdown): an action that is translated into a command line leaves
\* the transcript, what every viewer was sent, the cursor, the flags and the
\* scheduled exit exactly as ws.on("message") would have left them had a
\* viewer typed that line in the same state.
ActionAsTyped ==
    [][/\ last'.kind = "action"
       /\ ~adminShutdownInitiated
       /\ last'.action.data.kind = "json"
       /\ ~(last'.action.name = "admin_shutdown" /\ ~adminShutdownUnlocked)
       => LET typed == wsOnMessage(Session, Invocation(LastLine')).s
          IN  /\ messages' = typed.messages
              /\ out' = typed.out
              /\ vfs' = typed.vfs
              /\ adminShutdownUnlocked' = typed.adminShutdownUnlocked
              /\ adminShutdownInitiated' = typed.adminShutdownInitiated
              /\ exitTimers' = typed.exitTimers]_vars

\* the actor unlocked the command with open_file and then ran admin_shutdown,
\* with a viewer connected
ActionAsTypedWitness ==
    /\ adminShutdownInitiated
    /\ last.kind = "action"
    /\ last.action.name = "admin_shutdown"
    /\ readyState[1] = "open"
    /\ Len(out[1]) = 5
    /\ out[1][5] = CmdResult(Farewell)
    /\ messages[Len(messages) - 2].command = "display-file"

\* C20 (SpecOpen): an action whose data.data does not parse, or whose parsed
\* arguments lack a property its schema requires (file for open_file, dir for
\* change_directory), is failed with nothing appended and nothing sent.
MalformedActionRejected ==
    /\ last.kind = "action"
    /\ \/ last.action.data.kind # "json"
       \/ last.action.name = "open_file" /\ last.action.data.file = <<>>
       \/ last.action.name = "change_directory" /\ last.action.data.dir = <<>>
    => /\ last.ops = <<>>
       /\ last.ar.success = FALSE

NoSessionWithoutTree ==
    isNullVfs(vfs) =>
        /\ wsConnections = <<>>
        /\ \A ws \in Sockets : readyState[ws] = "new" /\ out[ws] = <<>>
        /\ messages = StartupTranscript
        /\ last.kind = "init"

\* C23 (SpecCursor): no step replaces the tree the file system stands on, and a
\* step that changes the cursor (curPath or curDir) is a cd command with
\* exactly one, non-empty, argument that reported success with the new path;
\* so pwd, ls, help, open, the empty command, unknown commands and cd with no,
\* an empty, or several arguments leave the cursor where it was.
CursorMovedOnlyByCd ==
    [][/\ vfs'.rootDir = vfs.rootDir
       /\ (vfs'.curPath # vfs.curPath \/ vfs'.curDir # vfs.curDir)
            => /\ last'.kind \in {"frame", "action"}
               /\ LET tokens == split(LastLine', " ")
                  IN  /\ tokens[1] = <<"cd">>
                      /\ Len(tokens) = 2
                      /\ tokens[2] # <<>>
               /\ LastResults' = << CmdResult(<<"cd: ">> \o vfs'.curPath) >>]_vars

\* the cursor was moved to /a by a cd, and a later cd with two arguments left it there
CursorMovedOnlyByCdWitness ==
    /\ vfs.curPath = <<"/", "a">>
    /\ vfs.curDir = "dirA"
    /\ last.kind = "frame"
    /\ last.frame.msg = <<"cd", " ", "a", " ", "b">>
    /\ LastResults = << CmdResult(<<"cd: expected one argument">>) >>

\* the farewell reached viewer ws: as a live event, or inside the replay of a
\* viewer that joined afterwards
FarewellSentTo(ws) ==
    \E i \in 1..Len(out[ws]) :
        \/ out[ws][i] = CmdResult(Farewell)
        \/ /\ out[ws][i].command = "transfer-state"
           /\ \E j \in 1..Len(out[ws][i].messages) :
                  out[ws][i].messages[j] = CmdResult(Farewell)

\* C24 (SpecFarewell): from the step that accepts admin_shutdown on, and so
\* before the process exits, the farewell result is in the transcript and has
\* been sent to every connected viewer; the process exits only after such a
\* step, and once the command is accepted the process eventually exits.
FarewellThenExit ==
    /\ [](adminShutdownInitiated =>
            /\ \E i \in 1..Len(messages) : messages[i] = CmdResult(Farewell)
            /\ \A i \in 1..Len(wsConnections) :
                  readyState[wsConnections[i]] = "open" => FarewellSentTo(wsConnections[i]))
    /\ [](proc = "exited" => adminShutdownInitiated)
    /\ (adminShutdownInitiated ~> proc = "exited")

\* the process has exited with two viewers connected, both holding the farewell
\* as a live event
FarewellThenExitWitness ==
    /\ proc = "exited"
    /\ Len(wsConnections) = 2
    /\ \A i \in 1..2 : Last(out[wsConnections[i]]) = CmdResult(Farewell)

\* C25 (SpecShutdown): every action the bridge hands to handleNeuroMessage is
\* answered with one action/result carrying the id of that action, whatever
\* the path taken, and no error leaves the bridge (the process keeps running).
EveryActionAnswered ==
    last.kind = "action" =>
        /\ ~last.threw
        /\ last.ar # NoResult
        /\ last.ar.id = last.action.id
        /\ proc # "crashed"

\* C26 (SpecShutdown): the text that help produces contains the word
\* admin_shutdown exactly when adminShutdownUnlocked holds as help runs (help
\* itself leaves the flag alone, so the flag is read in the same state).
HelpListsShutdownIffUnlocked ==
    (LastRan /\ LastLine = <<"help">>) =>
        /\ Len(LastResults) = 1
        /\ LastResults[1].command = "cmd/result"
        /\ (\E i \in 1..Len(LastResults[1].msg) : LastResults[1].msg[i] = "admin_shutdown")
             <=> adminShutdownUnlocked

\* help typed after the sentinel was opened lists the privileged command
HelpListsShutdownIffUnlockedWitness ==
    /\ LastRan
    /\ LastLine = <<"help">>
    /\ adminShutdownUnlocked
    /\ \E i \in 1..Len(Last(messages).msg) : Last(messages).msg[i] = "admin_shutdown"

\* the events a handler pushed, and those it sent, in program order
PushedBy(ops) ==
    LET pushes == SelectSeq(ops, LAMBDA o : o.op = "push")
    IN  [i \in 1..Len(pushes) |-> pushes[i].m]

SentBy(ops) ==
    LET sends == SelectSeq(ops, LAMBDA o : o.op = "send")
    IN  [i \in 1..Len(sends) |-> sends[i].m]

\* a command's events: its echo first, and no other echo after it
OneCommandBlock(events) ==
    events # <<>> =>
        /\ events[1].command = "cmd/invocation"
        /\ \A i \in 2..Len(events) : events[i].command # "cmd/invocation"

\* C27 (Spec): with several viewers and the actor submitting commands, each
\* input extends the transcript, and the delivery sequence of every OPEN
\* viewer, by one unbroken block: the command's echo followed by the events
\* that command produced, with no event of any other command inside it.
CommandEventsContiguous ==
    [][nInputs' # nInputs =>
         /\ messages' = messages \o PushedBy(last'.ops)
         /\ OneCommandBlock(PushedBy(last'.ops))
         /\ OneCommandBlock(SentBy(last'.ops))
         /\ PushedBy(last'.ops) # <<>> =>
                PushedBy(last'.ops)[1] = CmdInvocation(LastLine')
         /\ \A ws \in Sockets :
                readyState[ws] = "open" => out'[ws] = out[ws] \o SentBy(last'.ops)]_vars

\* two viewers are connected and two commands have run, the second by the actor:
\* the transcript holds two blocks, and both deliveries end with the actor's
\* echo and its result
CommandEventsContiguousWitness ==
    /\ Len(wsConnections) = 2
    /\ last.kind = "action"
    /\ Len(PushedBy(last.ops)) = 2
    /\ Len(messages) = Len(StartupTranscript) + 4
    /\ \A ws \in Sockets :
          /\ readyState[ws] = "open"
          /\ Len(out[ws]) >= 2
          /\ SubSeq(out[ws], Len(out[ws]) - 1, Len(out[ws]))
                = << CmdInvocation(<<"pwd">>), CmdResult(<<"/">>) >>

\* C28 (SpecVfs): a cd whose argument is an absolute path that, once its empty
\* segments (a trailing slash, doubled slashes) are discarded, names an
\* existing directory succeeds: the cursor stands on that directory and the
\* result reports the new path.
CdIgnoresEmptySegments ==
    (/\ LastRan
     /\ Len(split(LastLine, " ")) = 2
     /\ split(LastLine, " ")[1] = <<"cd">>
     /\ startsWith(split(LastLine, " ")[2], "/")
     /\ ResolveDirectory(split(LastLine, " ")[2]) # Null)
    => /\ vfs.curDir = ResolveDirectory(split(LastLine, " ")[2])
       /\ LastResults = << CmdResult(<<"cd: ">> \o vfs.curPath) >>

\* How the design's directory resolution ends for a list of segments followed
\* from dir: "NotFound" at the first segment that is no key of the children
\* mapping reached, "NotADirectory" at the first one that names a file, else "ok".
RECURSIVE ResolveKind(_, _)
ResolveKind(dir, segs) ==
    IF Len(segs) = 0 THEN "ok"
    ELSE IF segs[1] \notin DOMAIN Tree[dir].children THEN "NotFound"
    ELSE IF Tree[Tree[dir].children[segs[1]]].type = "file" THEN "NotADirectory"
    ELSE ResolveKind(Tree[dir].children[segs[1]], Tail(segs))

CdKind(curPath, arg) ==
    ResolveKind("root", SelectSeq(split(TargetPath(curPath, arg), "/"), LAMBDA seg : seg # <<>>))

\* C29 (SpecVfs): a cd, typed or sent by the actor, whose path has a segment
\* that is not a key of the children mapping reached fails with the
\* does-not-exist error, and one whose path runs into a file fails with the
\* is-a-file error; in both cases the cursor does not move.
ResolutionOnlyThroughChildren ==
    [][(/\ nInputs' # nInputs
        /\ LastRan'
        /\ Len(split(LastLine', " ")) = 2
        /\ split(LastLine', " ")[1] = <<"cd">>
        /\ split(LastLine', " ")[2] # <<>>
        /\ CdKind(vfs.curPath, split(LastLine', " ")[2]) # "ok")
       => /\ vfs' = vfs
          /\ Len(LastResults') = 1
          /\ Last(LastResults'[1].msg) =
                IF CdKind(vfs.curPath, split(LastLine', " ")[2]) = "NotFound"
                THEN "\" does not exist"
                ELSE "\" is a file, not a directory"]_vars

\* The node the design's file resolution reaches for a list of segments
\* followed from dir through the children mappings: Null when a segment is no
\* key of the mapping reached or a file stands before the last segment.
RECURSIVE ResolveLeaf(_, _)
ResolveLeaf(dir, segs) ==
    IF Len(segs) = 0 THEN dir
    ELSE IF Tree[dir].type # "directory" THEN Null
    ELSE IF segs[1] \notin DOMAIN Tree[dir].children THEN Null
    ELSE ResolveLeaf(Tree[dir].children[segs[1]], Tail(segs))

OpenTarget(curPath, arg) ==
    ResolveLeaf("root", SelectSeq(split(TargetPath(curPath, arg), "/"), LAMBDA seg : seg # <<>>))

\* the events an open of node with password should produce
OpenExpected(node, password, results) ==
    IF node = Null
    THEN /\ Len(results) = 1
         /\ results[1].command = "cmd/result"
         /\ results[1].msg[1] = "open: "
         /\ \E i \in 1..Len(results[1].msg) :
               results[1].msg[i] \in {"\" does not exist", "\" does not exist in the directory \""}
    ELSE IF Tree[node].type = "directory"
    THEN /\ Len(results) = 1
         /\ results[1].command = "cmd/result"
         /\ results[1].msg[1] = "open: "
         /\ \E i \in 1..Len(results[1].msg) :
               results[1].msg[i] = "\" points to a directory, not a file\""
    ELSE IF accessDenied(fileJson(node), password) = <<>>
    THEN results = << DisplayFile(fileJson(node)) >>
    ELSE \A i \in 1..Len(results) : results[i].command # "display-file"

\* C30 (SpecOpen): open with one or two arguments, typed or sent by the actor,
\* resolves an absolute path from the root and a relative one against the
\* current directory; it appends a display-file event carrying file F exactly
\* when the path names F and F is unprotected or the password matches; a
\* missing directory or leaf gives one "open: ... does not exist" text, and a
\* directory gives one "open: ... not a file" text.
OpenDisplaysNamedFile ==
    (/\ LastRan
     /\ split(LastLine, " ")[1] = <<"open">>
     /\ Len(split(LastLine, " ")) \in {2, 3})
    => OpenExpected(OpenTarget(vfs.curPath, split(LastLine, " ")[2]),
                    IF Len(split(LastLine, " ")) = 3 THEN split(LastLine, " ")[3] ELSE <<>>,
                    LastResults)

-----------------------------------------------------------------------------
(* The viewer page (public/js/index.js) *)

\* transferStateFromServer / handleMessage of the page: the events that end up
\* in the live-event cases, in order; a nested transfer-state is replayed in turn
RECURSIVE transferStateFromServer(_)
transferStateFromServer(msgs) ==
    IF Len(msgs) = 0 THEN <<>>
    ELSE (IF msgs[1].command = "transfer-state"
          THEN transferStateFromServer(msgs[1].messages)
          ELSE <<msgs[1]>>)
         \o transferStateFromServer(Tail(msgs))

-----------------------------------------------------------------------------

\* C31 (SpecShutdown): no event of the transcript has the discriminator
\* transfer-state; so no transfer-state sent to a viewer holds another one, and
\* the page's replay of it hands each contained event, once and in order, to
\* the live-event cases.
NoNestedTransferState ==
    /\ \A i \in 1..Len(messages) : messages[i].command # "transfer-state"
    /\ \A ws \in Sockets : \A i \in 1..Len(out[ws]) :
          out[ws][i].command = "transfer-state" =>
              /\ \A j \in 1..Len(out[ws][i].messages) :
                    out[ws][i].messages[j].command # "transfer-state"
              /\ transferStateFromServer(out[ws][i].messages) = out[ws][i].messages

\* a viewer that joined after a command was replayed it, and then sent a
\* transfer-state frame of its own
NoNestedTransferStateWitness ==
    /\ readyState[1] = "open"
    /\ Len(out[1]) = 1
    /\ out[1][1].command = "transfer-state"
    /\ Len(out[1][1].messages) > Len(StartupTranscript)
    /\ last.kind = "frame"
    /\ last.frame.command = "transfer-state"

\* C32 (Spec): wsConnections holds, once each, exactly the sockets that have
\* connected and whose close event has not run; a command published while a
\* socket is in its closing handshake is still appended to the transcript and
\* sent, whole, to every OPEN socket, and the closing one is sent nothing;
\* once the close has run the socket is sent nothing more.
RegisteredUntilClosed ==
    /\ [](\A ws \in Sockets :
             /\ (\E i \in 1..Len(wsConnections) : wsConnections[i] = ws)
                    <=> readyState[ws] \in {"open", "closing"}
             /\ \A i, j \in 1..Len(wsConnections) :
                    (wsConnections[i] = ws /\ wsConnections[j] = ws) => i = j
             /\ readyState[ws] = "closed" => out[ws] = <<>>)
    /\ [][nInputs' # nInputs =>
             /\ messages' = messages \o PushedBy(last'.ops)
             /\ SentBy(last'.ops) = PushedBy(last'.ops)
             /\ \A ws \in Sockets :
                   out'[ws] = IF readyState[ws] = "open"
                              THEN out[ws] \o PushedBy(last'.ops)
                              ELSE out[ws]]_vars

\* a command was published while socket 1 was closing and socket 2 was OPEN:
\* socket 2 holds its result
RegisteredUntilClosedWitness ==
    /\ readyState[1] = "closing"
    /\ readyState[2] = "open"
    /\ wsConnections = <<1, 2>>
    /\ last.kind = "frame"
    /\ Len(PushedBy(last.ops)) = 2
    /\ Last(out[2]) = Last(messages)
    /\ Last(out[1]) # Last(messages)

\* whether the command of the last step succeeded in the interpreter, read off
\* the events it appended: pwd and ls always; cd when it reported the working
\* directory; open when it displayed a file; admin_shutdown when it was accepted
LastSucceeded ==
    /\ LastRan
    /\ LET command == split(LastLine, " ")[1]
       IN  CASE command \in { <<"pwd">>, <<"ls">> } -> TRUE
             [] command = <<"cd">> ->
                    LastResults = << CmdResult(<<"cd: ">> \o vfs.curPath) >>
             [] command = <<"open">> ->
                    Len(LastResults) = 1 /\ LastResults[1].command = "display-file"
             [] command = <<"admin_shutdown">> ->
                    LastResults = << CmdResult(Farewell) >>
             [] OTHER -> FALSE

\* C33 (SpecShutdown): the success field of the action result returned to the
\* actor is TRUE exactly when the synthesized command succeeded: pwd, ls, a cd
\* that changed or kept the directory, an open that displayed the file, an
\* accepted admin_shutdown; and FALSE for a failing cd, a failing or denied
\* open and a rejected command or action.
ActionSuccessIffSucceeded ==
    (last.kind = "action" /\ ~last.threw) => (last.ar.success <=> LastSucceeded)

\* C34 (SpecVfs): ls, typed or sent by the actor, raises no error in any
\* directory and appends, after the echo, exactly one display-dir event and no
\* cmd/result; the event holds one record for each child of the current
\* directory, none missing and none extra.
LsListsEveryChild ==
    (LastRan /\ LastLine = <<"ls">>) =>
        /\ ~last.threw
        /\ Len(LastResults) = 1
        /\ LastResults[1].command = "display-dir"
        /\ Len(LastResults[1].contents) = Cardinality(ownKeys(vfs.curDir))
        /\ { LastResults[1].contents[i].name : i \in 1..Len(LastResults[1].contents) }
              = ownKeys(vfs.curDir)

\* C35 (SpecReset): whatever operations have run, resetGame among them, a
\* viewer that has been connected since startup was sent live, after its
\* replay, exactly the events the transcript holds after its startup lines,
\* in the same order; so the replay of a later joiner shows the same view.
TranscriptRecordsEveryFanOut ==
    \A ws \in Sockets :
        (readyState[ws] = "open" /\ joinedAt[ws] = Len(StartupTranscript)) =>
            Tail(out[ws]) = SubSeq(messages, Len(StartupTranscript) + 1, Len(messages))

\* C36 (SpecMsg): a cmd/invocation frame whose msg is missing or is not a
\* string is dropped, appending and sending nothing; so every echo in the
\* transcript, and every echo sent to a viewer, carries a string.
NonStringInvocationDropped ==
    /\ (last.kind = "frame" /\ last.frame.msg = NonString) => last.ops = <<>>
    /\ \A i \in 1..Len(messages) :
          messages[i].command = "cmd/invocation" => messages[i].msg # NonString
    /\ \A ws \in Sockets : \A i \in 1..Len(out[ws]) :
          out[ws][i].command = "cmd/invocation" => out[ws][i].msg # NonString

\* the names handleNeuroMessage has a case for
RecognizedActions == {"pwd", "change_directory", "ls", "open_file", "admin_shutdown"}

\* C37 (Spec): an action whose name is none of the recognized ones (its data
\* parses, no shutdown is under way) is answered with success FALSE and
\* "Unknown action. Please try again.", and it appends nothing to the
\* transcript and sends nothing to any viewer.
UnknownActionRejected ==
    (/\ last.kind = "action"
     /\ last.action.name \notin RecognizedActions
     /\ last.action.data.kind = "json"
     /\ ~adminShutdownInitiated)
    => /\ last.ops = <<>>
       /\ last.ar = NeuroResult(last.action.id, FALSE, <<"Unknown action. Please try again.">>)

\* C38 (SpecOpen): a command typed by a viewer forwards at most one context
\* message to the actor, whether it succeeds or fails (an open whose path
\* does not resolve included); a command run for the actor forwards none.
AtMostOneContext ==
    /\ last.kind = "frame" => last.ctx <= 1
    /\ last.kind = "action" => last.ctx = 0

====
